---- MODULE Spec2Model ----
(***************************************************************************)
(* BunKV: a Deno-KV compatible key-value store backed by one SQLite table. *)
(* The model follows src/src/kv.ts (class BunKV), src/src/sql.ts (the SQL  *)
(* statements) and src/unnamed/part_001 (encoding.ts: encodeKey).          *)
(*                                                                         *)
(* JavaScript runs one callback at a time and no handler of BunKV awaits   *)
(* between its reads and its writes (the tracer is off unless OTEL_BUN is  *)
(* set), so every public method is one action.                             *)
(***************************************************************************)
EXTENDS Integers, Sequences, FiniteSets, TLC

\* ------------------------------------------------------------------ bounds
\* Date.now() runs over 1..MaxTime.
MaxTime == 3
\* ... and over 1..MaxTxTime in the runs of transactions.
MaxTxTime == 2
\* ulid() is called at most MaxWrites times.
MaxWrites == 3
\* The longest byte string given to incrementBytes on its own.
MaxLen == 3

\* ------------------------------------------------------------------ bytes
NULL_BYTE == 0
ESCAPE_BYTE == 255
TYPE_BYTES == 16
TYPE_STRING == 32
TYPE_NUMBER == 48
TYPE_BIGINT == 49
TYPE_BOOLEAN == 64

\* A key part is [t |-> kind, v |-> sequence of integers]:
\*   "string"  v = the UTF-8 bytes of the text (TextEncoder of ASCII text)
\*   "bytes"   v = the bytes of the Uint8Array
\*   "number"  v = <<n>>, an integer-valued double; <<>> is NaN and
\*             <<0, 1>> is -0 (zero with the sign bit set)
\*   "bigint"  v = <<n>>
\*   "boolean" v = <<0>> or <<1>>
\*   any other kind is a value encodeKey does not support
Str(s) == [t |-> "string", v |-> s]
Bytes(b) == [t |-> "bytes", v |-> b]
Num(n) == [t |-> "number", v |-> <<n>>]
Big(n) == [t |-> "bigint", v |-> <<n>>]
Bool(b) == [t |-> "boolean", v |-> <<IF b THEN 1 ELSE 0>>]
NegZero == [t |-> "number", v |-> <<0, 1>>]
Sym == [t |-> "symbol", v |-> <<>>]

SupportedKinds == {"string", "bytes", "number", "bigint", "boolean"}

RECURSIVE Pow2(_)
Pow2(n) == IF n = 0 THEN 1 ELSE 2 * Pow2(n - 1)

RECURSIVE Log2(_)
Log2(a) == IF a < 2 THEN 0 ELSE 1 + Log2(a \div 2)

\* DataView.setFloat64(0, n, false) for an integer-valued n, |n| < 2^20:
\* sign, 11 bits of biased exponent, 52 bits of fraction, big endian.
Float64BE(n) ==
    IF n = 0 THEN <<0, 0, 0, 0, 0, 0, 0, 0>>
    ELSE LET a == IF n < 0 THEN -n ELSE n
             e == Log2(a)
             biased == 1023 + e
             frac == (a - Pow2(e)) * Pow2(20 - e)
             sign == IF n < 0 THEN 128 ELSE 0
         IN <<sign + biased \div 16,
              (biased % 16) * 16 + frac \div 65536,
              (frac \div 256) % 256,
              frac % 256, 0, 0, 0, 0>>

\* DataView.setBigInt64(0, n, false) for |n| < 2^23: two's complement.
BigInt64BE(n) ==
    LET m == n % 16777216
        hi == IF n < 0 THEN 255 ELSE 0
    IN <<hi, hi, hi, hi, hi, m \div 65536, (m \div 256) % 256, m % 256>>

\* view.setFloat64(0, part, false) of any number part: NaN is written as
\* the quiet NaN 7ff8000000000000 and -0 as 8000000000000000.
setFloat64(v) ==
    IF v = <<>> THEN <<127, 248, 0, 0, 0, 0, 0, 0>>
    ELSE IF Len(v) = 2 THEN <<128, 0, 0, 0, 0, 0, 0, 0>>
    ELSE Float64BE(v[1])

RECURSIVE escapeBytes(_)
escapeBytes(data) ==
    IF data = <<>> THEN <<>>
    ELSE (IF Head(data) = NULL_BYTE THEN <<NULL_BYTE, ESCAPE_BYTE>> ELSE <<Head(data)>>)
         \o escapeBytes(Tail(data))

InvertAll(b) == [i \in 1..Len(b) |-> 255 - b[i]]

\* An encoding that flips only the sign bit of a negative number.
encodeNumberSignOnly(v) ==
    LET uint8 == setFloat64(v)
    IN <<(uint8[1] + 128) % 256>> \o Tail(uint8)

encodeNumber(v) ==
    LET uint8 == setFloat64(v)
    IN IF uint8[1] >= 128 THEN InvertAll(uint8)
       ELSE <<uint8[1] + 128>> \o Tail(uint8)

encodeBigInt(n) ==
    LET b == BigInt64BE(n)
    IN <<(b[1] + 128) % 256>> \o Tail(b)

encodePart(part) ==
    CASE part.t = "string" -> <<TYPE_STRING>> \o escapeBytes(part.v) \o <<NULL_BYTE>>
      [] part.t = "number" -> <<TYPE_NUMBER>> \o encodeNumber(part.v)
      [] part.t = "boolean" -> <<TYPE_BOOLEAN, part.v[1]>>
      [] part.t = "bigint" -> <<TYPE_BIGINT>> \o encodeBigInt(part.v[1])
      [] part.t = "bytes" -> <<TYPE_BYTES>> \o escapeBytes(part.v) \o <<NULL_BYTE>>

\* encodeKey throws ERROR_UNSUPPORTED_KEY_TYPE on a part of another kind.
encodeKeyThrows(key) == \E i \in 1..Len(key) : key[i].t \notin SupportedKinds

RECURSIVE encodeKey(_)
encodeKey(key) ==
    IF key = <<>> THEN <<>> ELSE encodePart(Head(key)) \o encodeKey(Tail(key))

\* Unsigned lexicographic comparison of byte strings (memcmp, then the
\* shorter first): SQLite's order of BLOBs, Buffer.compare.
RECURSIVE BytesLess(_, _)
BytesLess(a, b) ==
    IF b = <<>> THEN FALSE
    ELSE IF a = <<>> THEN TRUE
    ELSE IF Head(a) # Head(b) THEN Head(a) < Head(b)
    ELSE BytesLess(Tail(a), Tail(b))

BytesLeq(a, b) == a = b \/ BytesLess(a, b)

\* incrementBytes: from the last byte down, the first byte below 0xff is
\* incremented and returned; every 0xff passed on the way is set to 0. When
\* all bytes are 0xff the zeroed copy is returned with one more 0 appended.
incrementBytes(bytes) ==
    LET n == Len(bytes)
        low == {i \in 1..n : bytes[i] < 255}
    IN IF low = {} THEN [i \in 1..n + 1 |-> 0]
       ELSE LET k == CHOOSE i \in low : \A j \in low : j <= i
            IN [i \in 1..n |-> IF i < k THEN bytes[i]
                                ELSE IF i = k THEN bytes[i] + 1 ELSE 0]

\* decodeKey walks the bytes with the cursor i (here the index of the next
\* type byte, from 1): a string is skipped up to its first 0x00, a number
\* and a bigint take 8 bytes, a boolean 1, any other type byte skips one
\* more byte. getFloat64 and getBigInt64 throw a RangeError on a slice of
\* fewer than 8 bytes.
RECURSIVE decodeKeyThrowsFrom(_, _)
decodeKeyThrowsFrom(bytes, i) ==
    IF i > Len(bytes) THEN FALSE
    ELSE IF bytes[i] = TYPE_STRING
    THEN LET nulls == {j \in (i + 1)..Len(bytes) : bytes[j] = NULL_BYTE}
         IN IF nulls = {} THEN FALSE
            ELSE decodeKeyThrowsFrom(
                    bytes, 1 + CHOOSE j \in nulls : \A k \in nulls : j <= k)
    ELSE IF bytes[i] \in {TYPE_NUMBER, TYPE_BIGINT}
    THEN IF Len(bytes) - i < 8 THEN TRUE
         ELSE decodeKeyThrowsFrom(bytes, i + 9)
    ELSE decodeKeyThrowsFrom(bytes, i + 2)

decodeKeyThrows(bytes) == decodeKeyThrowsFrom(bytes, 1)

\* The parts decodeKey pushes are dropped: it ends with `return []`.
decodeKey(bytes) == <<>>

\* The keys the calls are made with: ["a"], ["a\0"], ["a", 1], ["b"], [1n]
\* and a key with a part of no supported kind.
KA == <<Str(<<97>>)>>
KANul == <<Str(<<97, 0>>)>>
KA1 == <<Str(<<97>>), Num(1)>>
KB == <<Str(<<98>>)>>
KBig == <<Big(1)>>
KSym == <<Sym>>

Keys == {KA, KANul, KA1, KB, KBig, KSym}

\* const pk = encodeKey(key). The encodings of the keys above are computed
\* once; any other key is encoded on the spot.
Encoded == [k \in {k \in Keys : ~encodeKeyThrows(k)} |-> encodeKey(k)]
pkOf(key) == IF key \in DOMAIN Encoded THEN Encoded[key] ELSE encodeKey(key)

\* ------------------------------------------------------------------- JSON
\* A JavaScript value has the shape of a key part, [t |-> kind, v |-> ...];
\* NaN is the number with no digits and null is its own kind.
NaN == [t |-> "number", v |-> <<>>]
JsNull == [t |-> "null", v |-> <<>>]

\* A JSON text is [j |-> what the text spells, v |-> its content]; a key's
\* text is the array of its parts' texts.
\* JSON.stringify: a bigint throws a TypeError, NaN is spelled null, -0 is
\* spelled 0 and a Uint8Array is spelled as the object {"0": b0, "1": b1, ...}.
JsonStringifyThrows(x) == x.t = "bigint"

JsonStringify(x) ==
    CASE x.t = "number" /\ x.v = <<>> -> [j |-> "null", v |-> <<>>]
      [] x.t = "number" /\ x.v # <<>> -> [j |-> "number", v |-> <<x.v[1]>>]
      [] x.t = "string" -> [j |-> "string", v |-> x.v]
      [] x.t = "boolean" -> [j |-> "boolean", v |-> x.v]
      [] x.t = "bytes" -> [j |-> "object", v |-> x.v]
      [] OTHER -> [j |-> "null", v |-> <<>>]

JsonParse(text) ==
    CASE text.j = "number" -> [t |-> "number", v |-> text.v]
      [] text.j = "string" -> [t |-> "string", v |-> text.v]
      [] text.j = "boolean" -> [t |-> "boolean", v |-> text.v]
      [] text.j = "object" -> [t |-> "object", v |-> text.v]
      [] OTHER -> JsNull

JsonStringifyKeyThrows(key) == \E i \in 1..Len(key) : JsonStringifyThrows(key[i])
JsonStringifyKey(key) == [i \in 1..Len(key) |-> JsonStringify(key[i])]
JsonParseKey(text) == [i \in 1..Len(text) |-> JsonParse(text[i])]

\* -------------------------------------------------------------------- SQL
\* The table kv is a function from the primary keys present (pk, the
\* encoded key) to their rows. A nullable column holds <<>> for NULL and
\* <<x>> for the value x. The columns date_created and date_updated are
\* written by UPSERT and read by no statement; the model leaves them out.
NoRows == [pk \in {} |-> 0]

\* UPSERT whose ON CONFLICT clause forgets value_json.
UPSERTKeepValue(table, pk, key_json, value_json, version, date_expired) ==
    IF pk \in DOMAIN table
    THEN [table EXCEPT ![pk] = [@ EXCEPT !.version = version,
                                         !.date_expired = date_expired]]
    ELSE table @@ (pk :> [key_json |-> key_json, value_json |-> value_json,
                          version |-> version, date_expired |-> date_expired])

\* UPSERT whose ON CONFLICT clause forgets date_expired.
UPSERTKeepExpiry(table, pk, key_json, value_json, version, date_expired) ==
    IF pk \in DOMAIN table
    THEN [table EXCEPT ![pk] = [@ EXCEPT !.value_json = value_json,
                                         !.version = version]]
    ELSE table @@ (pk :> [key_json |-> key_json, value_json |-> value_json,
                          version |-> version, date_expired |-> date_expired])

UPSERT(table, pk, key_json, value_json, version, date_expired) ==
    IF pk \in DOMAIN table
    THEN [table EXCEPT ![pk] = [@ EXCEPT !.value_json = value_json,
                                         !.version = version,
                                         !.date_expired = date_expired]]
    ELSE table @@ (pk :> [key_json |-> key_json, value_json |-> value_json,
                          version |-> version, date_expired |-> date_expired])

\* DELETE that removes nothing.
DELETENothing(table, pk) == table

DELETE(table, pk) == [p \in DOMAIN table \ {pk} |-> table[p]]

\* set that ignores options.expireIn.
dateExpiredNever(t, options) == <<>>

\* set that tests options.expireIn against undefined: 0 expires now.
dateExpiredOfZero(t, options) ==
    IF options # <<>> THEN <<t + options[1]>> ELSE <<>>

\* const dateExpired = options?.expireIn ? now + options.expireIn : null
\* (options is <<>> when not given, <<d>> for {expireIn: d}; 0 is falsy).
dateExpired(t, options) ==
    IF options # <<>> /\ options[1] # 0 THEN <<t + options[1]>> ELSE <<>>

\* ------------------------------------------------------------ get/set/list
\* get's test of a row: result.date_expired !== null && result.date_expired < now
getExpired(row, t) == row.date_expired # <<>> /\ row.date_expired[1] < t

Missing(key) == [key |-> key, value |-> JsNull, version |-> <<>>]

\* What get(key) returns at time t (its lazy delete is in the action Get).
getResult(table, t, key) ==
    LET pk == pkOf(key)
    IN IF pk \notin DOMAIN table THEN Missing(key)
       ELSE IF getExpired(table[pk], t) THEN Missing(key)
       ELSE [key |-> key, value |-> JsonParse(table[pk].value_json),
             version |-> <<table[pk].version>>]

\* set that writes the first token again instead of the one just drawn.
setTableStale(table, t, key, value, options, version) ==
    UPSERT(table, pkOf(key), JsonStringifyKey(key), JsonStringify(value),
           1, dateExpired(t, options))

\* The table after set(key, value, options) at time t with the ulid version.
setTable(table, t, key, value, options, version) ==
    UPSERT(table, pkOf(key), JsonStringifyKey(key), JsonStringify(value),
           version, dateExpired(t, options))

\* A WHERE clause without the condition on date_expired, and one in which
\* start stands in for the lower bound of prefix.
listWhereAnyDate(table, t, selector, pk) ==
    /\ selector.prefix # <<>> =>
          /\ BytesLeq(pkOf(selector.prefix[1]), pk)
          /\ BytesLess(pk, incrementBytes(pkOf(selector.prefix[1])))
    /\ selector.start # <<>> => BytesLeq(pkOf(selector.start[1]), pk)
    /\ selector.end # <<>> => BytesLess(pk, pkOf(selector.end[1]))

listWhereStartOverrides(table, t, selector, pk) ==
    /\ (table[pk].date_expired = <<>> \/ table[pk].date_expired[1] >= t)
    /\ selector.prefix # <<>> =>
          /\ selector.start = <<>> => BytesLeq(pkOf(selector.prefix[1]), pk)
          /\ BytesLess(pk, incrementBytes(pkOf(selector.prefix[1])))
    /\ selector.start # <<>> => BytesLeq(pkOf(selector.start[1]), pk)
    /\ selector.end # <<>> => BytesLess(pk, pkOf(selector.end[1]))

\* list's WHERE clause. A selector is [prefix, start, end], each <<>> when
\* not given and <<key>> when given (an empty array is truthy in JavaScript).
listWhere(table, t, selector, pk) ==
    /\ (table[pk].date_expired = <<>> \/ table[pk].date_expired[1] >= t)
    /\ selector.prefix # <<>> =>
          /\ BytesLeq(pkOf(selector.prefix[1]), pk)
          /\ BytesLess(pk, incrementBytes(pkOf(selector.prefix[1])))
    /\ selector.start # <<>> => BytesLeq(pkOf(selector.start[1]), pk)
    /\ selector.end # <<>> => BytesLess(pk, pkOf(selector.end[1]))

listThrows(selector) ==
    \/ selector.prefix # <<>> /\ encodeKeyThrows(selector.prefix[1])
    \/ selector.start # <<>> /\ encodeKeyThrows(selector.start[1])
    \/ selector.end # <<>> /\ encodeKeyThrows(selector.end[1])

\* ORDER BY pk ASC of a set of primary keys.
RECURSIVE orderByPk(_)
orderByPk(pks) ==
    IF pks = {} THEN <<>>
    ELSE LET least == CHOOSE p \in pks : \A q \in pks : BytesLeq(p, q)
         IN <<least>> \o orderByPk(pks \ {least})

\* ORDER BY pk DESC is the ascending order read from its end.
ReverseNot(s) == s

Reverse(s) == [i \in 1..Len(s) |-> s[Len(s) + 1 - i]]

\* The primary keys of the rows the statement of list returns, in order.
\* Options are [limit, reverse]; limit is <<>> or <<n>>, and LIMIT is added
\* only for a truthy limit (SQLite reads a negative LIMIT as no limit).
listRows(table, t, selector, options) ==
    LET hit == {pk \in DOMAIN table : listWhere(table, t, selector, pk)}
        asc == orderByPk(hit)
        ordered == IF options.reverse THEN Reverse(asc) ELSE asc
    IN IF options.limit # <<>> /\ options.limit[1] > 0
          /\ options.limit[1] < Len(ordered)
       THEN SubSeq(ordered, 1, options.limit[1])
       ELSE ordered

\* gen(): one entry per row, skipping a row with date_expired < now.
listResult(table, t, selector, options) ==
    LET rows == SelectSeq(listRows(table, t, selector, options),
                          LAMBDA pk : ~getExpired(table[pk], t))
    IN [i \in 1..Len(rows) |->
          [key |-> JsonParseKey(table[rows[i]].key_json),
           value |-> JsonParse(table[rows[i]].value_json),
           version |-> <<table[rows[i]].version>>]]

\* ----------------------------------------------------------------- atomic
\* A check is [key, version] with version <<>> for null and <<v>> otherwise;
\* an operation is [type |-> "set", key, value, options] or
\* [type |-> "delete", key].
\* let effectiveVersion = existing?.version;
\* if (existing?.date_expired && existing.date_expired < now) effectiveVersion = undefined
effectiveVersion(table, t, pk) ==
    IF pk \notin DOMAIN table THEN <<>>
    ELSE IF /\ table[pk].date_expired # <<>>
            /\ table[pk].date_expired[1] # 0
            /\ table[pk].date_expired[1] < t
         THEN <<>>
         ELSE <<table[pk].version>>

\* A check that compares no versions: it fails only for a missing entry.
checkThrowsAnyVersion(table, t, check) ==
    \/ encodeKeyThrows(check.key)
    \/ LET effective == effectiveVersion(table, t, pkOf(check.key))
       IN IF check.version = <<>> THEN effective # <<>>
          ELSE effective = <<>>

\* Whether the check throws ERROR_CHECK_FAILED_* (or encodeKey throws).
checkThrows(table, t, check) ==
    \/ encodeKeyThrows(check.key)
    \/ LET effective == effectiveVersion(table, t, pkOf(check.key))
       IN IF check.version = <<>> THEN effective # <<>>
          ELSE effective = <<>> \/ effective # check.version

opThrows(op) ==
    \/ encodeKeyThrows(op.key)
    \/ /\ op.type = "set"
       /\ JsonStringifyKeyThrows(op.key) \/ JsonStringifyThrows(op.value)

\* An operations loop that draws a token per set instead of one per commit.
applyOpOwnVersion(table, t, op, version) ==
    IF op.type = "set"
    THEN setTable(table, t, op.key, op.value, op.options,
                  version + Cardinality(DOMAIN table))
    ELSE DELETE(table, pkOf(op.key))

applyOp(table, t, op, version) ==
    IF op.type = "set"
    THEN setTable(table, t, op.key, op.value, op.options, version)
    ELSE DELETE(table, pkOf(op.key))

\* An operations loop that goes from the last operation to the first.
RECURSIVE applyOpsLastFirst(_, _, _, _)
applyOpsLastFirst(table, t, ops, version) ==
    IF ops = <<>> THEN [threw |-> FALSE, table |-> table]
    ELSE IF opThrows(ops[Len(ops)]) THEN [threw |-> TRUE, table |-> table]
    ELSE applyOpsLastFirst(applyOp(table, t, ops[Len(ops)], version), t,
                           SubSeq(ops, 1, Len(ops) - 1), version)

\* The operations loop: the table after the operations before the first that
\* throws, and whether one threw.
RECURSIVE applyOps(_, _, _, _)
applyOps(table, t, ops, version) ==
    IF ops = <<>> THEN [threw |-> FALSE, table |-> table]
    ELSE IF opThrows(Head(ops)) THEN [threw |-> TRUE, table |-> table]
    ELSE applyOps(applyOp(table, t, Head(ops), version), t, Tail(ops), version)

\* A commit that runs its operations outside the transaction, so that a
\* failing check rolls nothing back.
transactionNoRollback(table, t, checks, ops, version) ==
    LET done == applyOps(table, t, ops, version)
    IN IF \E i \in 1..Len(checks) : checkThrows(table, t, checks[i])
       THEN [threw |-> TRUE, table |-> done.table, ulid |-> FALSE,
             changedKeys |-> <<>>]
       ELSE IF done.threw
       THEN [threw |-> TRUE, table |-> table, ulid |-> TRUE, changedKeys |-> <<>>]
       ELSE [threw |-> FALSE, table |-> done.table, ulid |-> TRUE,
             changedKeys |-> [i \in 1..Len(ops) |-> ops[i].key]]

\* self.db.transaction(...)(): checks, then ulid(), then the operations; a
\* throw rolls every write back. ulid says whether ulid() was reached.
transaction(table, t, checks, ops, version) ==
    IF \E i \in 1..Len(checks) : checkThrows(table, t, checks[i])
    THEN [threw |-> TRUE, table |-> table, ulid |-> FALSE, changedKeys |-> <<>>]
    ELSE LET done == applyOps(table, t, ops, version)
         IN IF done.threw
            THEN [threw |-> TRUE, table |-> table, ulid |-> TRUE, changedKeys |-> <<>>]
            ELSE [threw |-> FALSE, table |-> done.table, ulid |-> TRUE,
                  changedKeys |-> [i \in 1..Len(ops) |-> ops[i].key]]

\* The error the transaction function throws and the number of statements
\* (SELECT_META_CHECK, UPSERT, DELETE) it ran before: a check throws after
\* its SELECT unless encodeKey throws first, an operation throws before its
\* statement. error is "" when nothing is thrown.
checkError(check) ==
    IF encodeKeyThrows(check.key) THEN "Unsupported key type"
    ELSE IF check.version = <<>> THEN "Check failed: key exists"
    ELSE "Check failed: version mismatch"

opError(op) ==
    IF encodeKeyThrows(op.key) THEN "Unsupported key type" ELSE "TypeError"

transactionError(table, t, checks, ops) ==
    LET failing == {i \in 1..Len(checks) : checkThrows(table, t, checks[i])}
        bad == {j \in 1..Len(ops) : opThrows(ops[j])}
    IN IF failing # {}
       THEN LET i == CHOOSE i \in failing : \A k \in failing : i <= k
            IN [error |-> checkError(checks[i]),
                statements |-> IF encodeKeyThrows(checks[i].key) THEN i - 1 ELSE i]
       ELSE IF bad # {}
       THEN LET j == CHOOSE j \in bad : \A k \in bad : j <= k
            IN [error |-> opError(ops[j]), statements |-> Len(checks) + j - 1]
       ELSE [error |-> "", statements |-> Len(checks) + Len(ops)]

\* A commit whose catch hands the error on to the caller.
commitCatchRethrow(tx) == [rejected |-> tx.threw, ok |-> ~tx.threw]

\* try { const res = transaction(); ... return {ok: true, ...} }
\* catch (e) { return {ok: false} }: whatever was thrown, commit resolves.
commitCatch(tx) == [rejected |-> FALSE, ok |-> ~tx.threw]

\* ------------------------------------------------------------------ watch
InSeq(x, seq) == \E i \in 1..Len(seq) : seq[i] = x

\* One stream returned by watch(keys). pc is where its start() is: "none"
\* before watch is called, "start" while start() awaits a get, "listening"
\* once start() has returned, "failed" once it has thrown. initial is the
\* array start() fills, calls are the calls of listener that await a get,
\* each with its array updates, and queue holds the chunks given to
\* controller.enqueue, in order. closed is <<>> until close() is called on
\* the store, and then holds the number of chunks enqueued before.
\* History: reads is the table and the time at each get of start(); causes
\* names, for each chunk of queue, who enqueued it and for which change
\* event; owed is the set of positions i of keys such that keys[i] was
\* written after watch(keys) was called and no chunk enqueued since read
\* keys[i] after the latest of these writes; stale, of start() and of each
\* call, is the set of positions it read before the latest write.
NoStream ==
    [pc |-> "none", keys |-> <<>>, cancelled |-> FALSE, listener |-> FALSE,
     initial |-> <<>>, calls |-> <<>>, queue |-> <<>>, closed |-> <<>>,
     reads |-> <<>>, causes |-> <<>>, stale |-> {}, owed |-> {}]

\* new Set(keys.map((k) => JSON.stringify(k)))
watchedSet(keys) == {JsonStringifyKey(keys[i]) : i \in 1..Len(keys)}

\* The listener throws when JSON.stringify meets a bigint: in a watched key,
\* or in a changed key reached before a relevant one.
listenerThrows(keys, changedKeys) ==
    \/ \E i \in 1..Len(keys) : JsonStringifyKeyThrows(keys[i])
    \/ \E j \in 1..Len(changedKeys) :
          /\ JsonStringifyKeyThrows(changedKeys[j])
          /\ \A i \in 1..(j - 1) :
                \/ JsonStringifyKeyThrows(changedKeys[i])
                \/ JsonStringifyKey(changedKeys[i]) \notin watchedSet(keys)

relevant(keys, changedKeys) ==
    \E j \in 1..Len(changedKeys) :
       /\ ~JsonStringifyKeyThrows(changedKeys[j])
       /\ JsonStringifyKey(changedKeys[j]) \in watchedSet(keys)

\* for (const key of keys): the key read after the results in got.
nextKeyFirst(keys, got) == keys[1]

nextKey(keys, got) == keys[Len(got) + 1]

\* controller.enqueue(chunk)
enqueue(s, chunk, cause, stale) ==
    [s EXCEPT !.queue = Append(@, chunk),
              !.causes = Append(@, cause),
              !.owed = @ \cap stale]

\* this.events.emit("change", changedKeys) and self.get(key), on the world
\* w = [table, stream]. emit runs the listener up to its first await: when a
\* changed key is relevant, the get of the first watched key. get finds its
\* row, deletes it when expired and emits the change of that delete before
\* it returns: the listener runs again inside the get it called.
RECURSIVE emitChange(_, _, _)
RECURSIVE getSync(_, _, _)

\* A get whose clean-up does not look at the clock: it removes every row
\* that holds an expiration time.
getSyncNoClock(w, t, key) ==
    LET pk == pkOf(key)
    IN IF pk \in DOMAIN w.table /\ w.table[pk].date_expired # <<>>
       THEN [w |-> emitChange([w EXCEPT !.table = DELETE(w.table, pk)],
                              t, <<key>>),
             result |-> getResult(w.table, t, key)]
       ELSE [w |-> w, result |-> getResult(w.table, t, key)]

emitChange(w, t, changedKeys) ==
    IF \/ ~w.stream.listener
       \/ listenerThrows(w.stream.keys, changedKeys)
       \/ ~relevant(w.stream.keys, changedKeys)
    THEN w
    ELSE LET g == getSync(w, t, nextKey(w.stream.keys, <<>>))
         IN [g.w EXCEPT !.stream.calls =
                Append(@, [updates |-> <<g.result>>,
                           changedKeys |-> changedKeys, stale |-> {}])]

getSync(w, t, key) ==
    LET pk == pkOf(key)
    IN IF pk \in DOMAIN w.table /\ getExpired(w.table[pk], t)
       THEN [w |-> emitChange([w EXCEPT !.table = DELETE(w.table, pk)],
                              t, <<key>>),
             result |-> getResult(w.table, t, key)]
       ELSE [w |-> w, result |-> getResult(w.table, t, key)]

\* History: a set, a delete or a commit wrote the keys of written.
wrote(s, written) ==
    LET at == {i \in 1..Len(s.keys) : InSeq(s.keys[i], written)}
    IN IF s.pc = "none" THEN s
       ELSE [s EXCEPT
               !.owed = @ \cup at,
               !.stale = @ \cup {i \in at : i <= Len(s.initial)},
               !.calls = [c \in DOMAIN s.calls |->
                            [s.calls[c] EXCEPT !.stale =
                               @ \cup {i \in at : i <= Len(s.calls[c].updates)}]]]

\* A start() in which enqueue does not throw on a cancelled stream.
startRunRegisters(w, t) ==
    IF Len(w.stream.initial) < Len(w.stream.keys)
    THEN LET g == getSync(w, t, nextKey(w.stream.keys, w.stream.initial))
         IN [g.w EXCEPT
               !.stream.initial = Append(@, g.result),
               !.stream.reads = Append(@, [table |-> w.table, t |-> t])]
    ELSE [w EXCEPT !.stream.pc = "listening", !.stream.listener = TRUE]

\* start(controller), from the call of watch or from an await to the next
\* await or to its end: the next get, or the enqueue of initial and
\* events.on("change", listener). A get of an unsupported key and a get on
\* a closed database reject, and enqueue throws on a cancelled stream:
\* start() throws.
startRun(w, t) ==
    IF Len(w.stream.initial) < Len(w.stream.keys)
    THEN IF \/ encodeKeyThrows(nextKey(w.stream.keys, w.stream.initial))
            \/ w.stream.closed # <<>>
         THEN [w EXCEPT !.stream.pc = "failed"]
         ELSE LET g == getSync(w, t, nextKey(w.stream.keys, w.stream.initial))
              IN [g.w EXCEPT
                    !.stream.initial = Append(@, g.result),
                    !.stream.reads = Append(@, [table |-> w.table, t |-> t])]
    ELSE IF w.stream.cancelled
    THEN [w EXCEPT !.stream.pc = "failed"]
    ELSE [w EXCEPT !.stream =
            [enqueue(w.stream, w.stream.initial,
                     [by |-> "start", changedKeys |-> <<>>], w.stream.stale)
               EXCEPT !.pc = "listening", !.listener = TRUE]]

RemoveAt(seq, c) ==
    [i \in 1..(Len(seq) - 1) |-> IF i < c THEN seq[i] ELSE seq[i + 1]]

\* The call c of listener, from an await to the next await or to its end;
\* the call ends when its get rejects or its enqueue throws.
listenerRun(w, t, c) ==
    LET call == w.stream.calls[c]
    IN IF Len(call.updates) < Len(w.stream.keys) /\ w.stream.closed # <<>>
       THEN [w EXCEPT !.stream.calls = RemoveAt(@, c)]
       ELSE IF Len(call.updates) < Len(w.stream.keys)
       THEN LET g == getSync(w, t, nextKey(w.stream.keys, call.updates))
            IN [g.w EXCEPT !.stream.calls[c].updates = Append(@, g.result)]
       ELSE IF w.stream.cancelled
       THEN [w EXCEPT !.stream.calls = RemoveAt(@, c)]
       ELSE [w EXCEPT !.stream =
               [enqueue(w.stream, call.updates,
                        [by |-> "listener", changedKeys |-> call.changedKeys],
                        call.stale)
                  EXCEPT !.calls = RemoveAt(@, c)]]

\* ------------------------------------------------------------------ state
VARIABLES
    kv,        \* the table kv of the SQLite database
    now,       \* Date.now()
    ulids,     \* how many times ulid() was called; the next token is ulids + 1
    last,      \* the call made by the last step and what it returned
    hist,      \* history: per key, the set or commit that last wrote its row,
               \* forgotten when a delete or a commit's delete touches the key
    returned,  \* history: the versions returned by set and commit, in order
    consumed,  \* history: <<key, v>> of every check(key, v) of a commit that
               \* returned ok and also wrote key
    stream     \* the stream returned by watch, its listener and its history

vars == <<kv, now, ulids, last, hist, returned, consumed, stream>>

\* An emit that comes before the statements: the listener reads the table
\* as it was.
emitEarly(table, changedKeys) ==
    \E w \in {emitChange([table |-> kv, stream |-> wrote(stream, changedKeys)],
                         now, changedKeys)} :
       /\ kv' = table
       /\ stream' = w.stream

\* this.events.emit("change", changedKeys) after the statements of a set, a
\* delete or a commit left table.
emit(table, changedKeys) ==
    \E w \in {emitChange([table |-> table, stream |-> wrote(stream, changedKeys)],
                         now, changedKeys)} :
       /\ kv' = w.table
       /\ stream' = w.stream

NeverWritten ==
    [by |-> "none", value |-> JsNull, version |-> <<>>, writer |-> 0,
     deadline |-> <<>>]

\* History: the time t + d at which an entry written at t with {expireIn: d},
\* d # 0, expires; <<>> when no expireIn is given.
Deadline(t, options) == IF options = <<>> THEN <<>> ELSE <<t + options[1]>>

Written(by, value, version, t, options) ==
    [by |-> by, value |-> value, version |-> <<version>>,
     writer |-> Len(returned) + 1, deadline |-> Deadline(t, options)]

Init ==
    /\ kv = NoRows
    /\ now = 1
    /\ ulids = 0
    /\ last = [op |-> "open"]
    /\ hist = [k \in Keys |-> NeverWritten]
    /\ returned = <<>>
    /\ consumed = {}
    /\ stream = NoStream

\* Time passes between two calls.
Tick ==
    /\ now < MaxTime
    /\ now' = now + 1
    /\ last' = [op |-> "tick"]
    /\ UNCHANGED <<kv, ulids, hist, returned, consumed, stream>>

\* await kv.get(key): the row read, and the lazy delete of an expired row,
\* which runs to its end (DELETE and the change event) inside get.
Get(key) ==
    IF encodeKeyThrows(key)
    THEN /\ last' = [op |-> "get", key |-> key, threw |-> TRUE,
                     error |-> "Unsupported key type", statements |-> 0]
         /\ UNCHANGED <<kv, now, ulids, hist, returned, consumed, stream>>
    ELSE LET pk == pkOf(key)
             expired == pk \in DOMAIN kv /\ getExpired(kv[pk], now)
         IN /\ \E got \in {getSync([table |-> kv, stream |-> stream], now, key)} :
                  /\ kv' = got.w.table
                  /\ stream' = got.w.stream
                  /\ last' = [op |-> "get", key |-> key, threw |-> FALSE,
                              result |-> got.result,
                              event |-> IF expired THEN <<key>> ELSE <<>>]
            /\ UNCHANGED <<now, ulids, hist, returned, consumed>>

\* await kv.set(key, value, options); inserted tells whether the UPSERT
\* found no row of the key.
Set(key, value, options) ==
    IF encodeKeyThrows(key) \/ JsonStringifyKeyThrows(key) \/ JsonStringifyThrows(value)
    THEN /\ last' = [op |-> "set", key |-> key, threw |-> TRUE,
                     error |-> IF encodeKeyThrows(key)
                               THEN "Unsupported key type" ELSE "TypeError",
                     statements |-> 0]
         /\ UNCHANGED <<kv, now, ulids, hist, returned, consumed, stream>>
    ELSE /\ ulids < MaxWrites
         /\ LET version == ulids + 1
            IN /\ emit(setTable(kv, now, key, value, options, version), <<key>>)
               /\ ulids' = version
               /\ last' = [op |-> "set", key |-> key, threw |-> FALSE,
                           result |-> [ok |-> TRUE, version |-> <<version>>],
                           inserted |-> pkOf(key) \notin DOMAIN kv,
                           event |-> <<key>>]
               /\ hist' = [hist EXCEPT ![key] =
                             Written("set", value, version, now, options)]
               /\ returned' = Append(returned, version)
         /\ UNCHANGED <<now, consumed>>

\* await kv.delete(key)
Delete(key) ==
    IF encodeKeyThrows(key)
    THEN /\ last' = [op |-> "delete", key |-> key, threw |-> TRUE,
                     error |-> "Unsupported key type", statements |-> 0]
         /\ UNCHANGED <<kv, now, ulids, hist, returned, consumed, stream>>
    ELSE /\ emit(DELETE(kv, pkOf(key)), <<key>>)
         /\ last' = [op |-> "delete", key |-> key, threw |-> FALSE,
                     changes |-> IF pkOf(key) \in DOMAIN kv THEN 1 ELSE 0,
                     event |-> <<key>>]
         /\ hist' = [hist EXCEPT ![key] = NeverWritten]
         /\ UNCHANGED <<now, ulids, returned, consumed>>

\* for await (const entry of kv.list(selector, options)), read to its end
List(selector, options) ==
    /\ last' = IF listThrows(selector)
               THEN [op |-> "list", selector |-> selector, threw |-> TRUE,
                     error |-> "Unsupported key type", statements |-> 0]
               ELSE [op |-> "list", selector |-> selector, threw |-> FALSE,
                     options |-> options,
                     result |-> listResult(kv, now, selector, options)]
    /\ UNCHANGED <<kv, now, ulids, hist, returned, consumed, stream>>

\* The last operation of ops on key, and the keys ops leaves set.
lastOpOn(ops, key) ==
    LET at == {i \in 1..Len(ops) : ops[i].key = key}
    IN ops[CHOOSE i \in at : \A j \in at : j <= i]

keysSet(ops) ==
    {ops[i].key : i \in {i \in 1..Len(ops) : lastOpOn(ops, ops[i].key).type = "set"}}

\* await kv.atomic().check(..)...set(..)...delete(..).commit(): the builder's
\* check, set and delete push on checks and ops in call order.
Commit(checks, ops) ==
    /\ UNCHANGED now
    /\ \E tx \in {transaction(kv, now, checks, ops, ulids + 1)} :
       \E pairs \in {{<<checks[i].key, checks[i].version>> :
                        i \in {i \in 1..Len(checks) :
                                 /\ checks[i].version # <<>>
                                 /\ \E j \in 1..Len(ops) :
                                       ops[j].key = checks[i].key}}},
          thrown \in {transactionError(kv, now, checks, ops)} :
          /\ tx.ulid => ulids < MaxWrites
          /\ IF ~tx.threw /\ Len(tx.changedKeys) > 0
             THEN emit(tx.table, tx.changedKeys)
             ELSE kv' = tx.table /\ UNCHANGED stream
          /\ ulids' = IF tx.ulid THEN ulids + 1 ELSE ulids
          /\ last' = [op |-> "commit",
                      checkFailed |-> thrown.error \in {"Check failed: key exists",
                                                        "Check failed: version mismatch"},
                      unsupported |-> IF thrown.error = "Unsupported key type"
                                      THEN <<thrown.statements>> ELSE <<>>,
                      stale |-> pairs \cap consumed # {},
                      sets |-> keysSet(ops),
                      rejected |-> commitCatch(tx).rejected,
                      result |-> IF commitCatch(tx).ok
                                 THEN [ok |-> TRUE, version |-> <<ulids + 1>>]
                                 ELSE [ok |-> FALSE, version |-> <<>>],
                      event |-> IF ~tx.threw /\ Len(tx.changedKeys) > 0
                                THEN tx.changedKeys ELSE <<>>]
          /\ hist' = IF tx.threw THEN hist
                     ELSE [k \in DOMAIN hist |->
                             IF \A i \in 1..Len(ops) : ops[i].key # k THEN hist[k]
                             ELSE IF lastOpOn(ops, k).type = "set"
                             THEN Written("commit", lastOpOn(ops, k).value,
                                          ulids + 1, now, lastOpOn(ops, k).options)
                             ELSE NeverWritten]
          /\ returned' = IF ~tx.threw THEN Append(returned, ulids + 1) ELSE returned
          /\ consumed' = IF ~tx.threw THEN consumed \cup pairs ELSE consumed

\* const stream = kv.watch(keys): the constructor of ReadableStream calls
\* start(controller), which runs to its first await or, with no key, to its
\* end.
Watch(keys) ==
    /\ stream.pc = "none"
    /\ \E w \in {startRun([table |-> kv,
                           stream |-> [stream EXCEPT !.pc = "start",
                                                     !.keys = keys]],
                          now)} :
          /\ kv' = w.table
          /\ stream' = w.stream
    /\ last' = [op |-> "watch", keys |-> keys]
    /\ UNCHANGED <<now, ulids, hist, returned, consumed>>

\* start(controller) resumes after an await.
WatchStart ==
    /\ stream.pc = "start"
    /\ \E w \in {startRun([table |-> kv, stream |-> stream], now)} :
          /\ kv' = w.table
          /\ stream' = w.stream
    /\ last' = [op |-> "start"]
    /\ UNCHANGED <<now, ulids, hist, returned, consumed>>

\* The call c of listener resumes after an await.
WatchListener(c) ==
    /\ c <= Len(stream.calls)
    /\ \E w \in {listenerRun([table |-> kv, stream |-> stream], now, c)} :
          /\ kv' = w.table
          /\ stream' = w.stream
    /\ last' = [op |-> "listener"]
    /\ UNCHANGED <<now, ulids, hist, returned, consumed>>

\* reader.cancel(): cancel() takes the listener off, when there is one.
WatchCancel ==
    /\ stream.pc \in {"start", "listening"}
    /\ ~stream.cancelled
    /\ stream' = [stream EXCEPT !.cancelled = TRUE, !.listener = FALSE]
    /\ last' = [op |-> "cancel"]
    /\ UNCHANGED <<kv, now, ulids, hist, returned, consumed>>

\* await kv.close(): db.close() and events.removeAllListeners().
Close ==
    /\ stream.closed = <<>>
    /\ stream' = [stream EXCEPT !.closed = <<Len(stream.queue)>>,
                                !.listener = FALSE]
    /\ last' = [op |-> "close"]
    /\ UNCHANGED <<kv, now, ulids, hist, returned, consumed>>

\* ----------------------------------------------------------------- inputs
NoSelector == [prefix |-> <<>>, start |-> <<>>, end |-> <<>>]
Prefix(key) == [prefix |-> <<key>>, start |-> <<>>, end |-> <<>>]
NoOptions == [limit |-> <<>>, reverse |-> FALSE]

SetOp(key, value, options) ==
    [type |-> "set", key |-> key, value |-> value, options |-> options]
DeleteOp(key) ==
    [type |-> "delete", key |-> key, value |-> JsNull, options |-> <<>>]
Check(key, version) == [key |-> key, version |-> version]

SeqsUpTo2(S) == {<<>>} \cup {<<x>> : x \in S} \cup {<<x, y>> : x \in S, y \in S}

\* The point operations and list.
StoreKeys == {KA, KANul, KBig}
Values == {Num(1), NaN}
Expiry == {<<>>, <<1>>}
Selectors == {NoSelector, Prefix(KA)}

Next ==
    \/ Tick
    \/ \E key \in StoreKeys \cup {KSym} : Get(key)
    \/ \E key \in StoreKeys, value \in Values, options \in Expiry :
          Set(key, value, options)
    \/ \E key \in StoreKeys : Delete(key)
    \/ \E selector \in Selectors : List(selector, NoOptions)

Spec == Init /\ [][Next]_vars

\* Transactions: set on one key, and commits of up to two checks, on
\* different keys, and up to two different operations. A check names null,
\* a version some call returned, or a version no call returned (0). The
\* clock of these runs stops at MaxTxTime, and expireIn -1 writes an entry
\* that is expired as soon as it is written.
TxExpiry == {<<>>, <<-1>>}
TxVersions == {<<>>, <<0>>} \cup {<<returned[i]>> : i \in 1..Len(returned)}
TxChecks == {Check(KA, version) : version \in TxVersions} \cup {Check(KB, <<>>)}
TxOps == {SetOp(KA, Num(1), <<>>), SetOp(KB, Num(1), <<-1>>), DeleteOp(KA)}

TxCheckLists ==
    {checks \in SeqsUpTo2(TxChecks) :
        Len(checks) = 2 => checks[1].key # checks[2].key}

TxOpLists == {ops \in SeqsUpTo2(TxOps) : Len(ops) = 2 => ops[1] # ops[2]}

TxTick ==
    /\ now < MaxTxTime
    /\ Tick

NextTx ==
    \/ TxTick
    \/ \E options \in TxExpiry : Set(KA, Num(1), options)
    \/ \E checks \in TxCheckLists, ops \in TxOpLists : Commit(checks, ops)

SpecTx == Init /\ [][NextTx]_vars

\* ------------------------------------------------------------------- list
\* list on a store of ["a"], ["a", 1] and ["b"], live or expired, with
\* prefix, start and end alone and together, a limit of 0, 1 or 2 or none,
\* in both directions. The clock stands still and expireIn -1 writes an
\* entry that is expired as soon as it is written.
ListKeys == {KA, KA1, KB}

Range(prefix, start, end) == [prefix |-> prefix, start |-> start, end |-> end]

ListSelectors ==
    {NoSelector, Prefix(KA),
     Range(<<KA>>, <<KA1>>, <<>>), Range(<<KA>>, <<>>, <<KA1>>),
     Range(<<KB>>, <<KA>>, <<>>), Range(<<>>, <<KA1>>, <<>>),
     Range(<<>>, <<KA1>>, <<KB>>), Range(<<>>, <<KB>>, <<KA>>)}

ListOptions ==
    {[limit |-> limit, reverse |-> reverse] :
        limit \in {<<>>, <<0>>, <<1>>, <<2>>}, reverse \in BOOLEAN}

NextList ==
    \/ \E key \in ListKeys, options \in TxExpiry : Set(key, Num(1), options)
    \/ \E selector \in ListSelectors, options \in ListOptions :
          List(selector, options)

SpecList == Init /\ [][NextList]_vars

\* ------------------------------------------------------------ kinds of key
\* The operations on one-part keys of each kind: [Uint8Array [1]], ["a"],
\* [1], [1n], [true] and a key with a part of no supported kind. A commit
\* sets one key, checks one key, or sets ["a"] and then deletes one key.
KBytes == <<Bytes(<<1>>)>>
KNum == <<Num(1)>>
KBool == <<Bool(TRUE)>>

KindKeys == {KBytes, KA, KNum, KBig, KBool, KSym}

KindCommits ==
    {<<<<>>, <<SetOp(key, Num(1), <<>>)>>>> : key \in KindKeys}
    \cup {<<<<Check(key, <<>>)>>, <<>>>> : key \in KindKeys}
    \cup {<<<<>>, <<SetOp(KA, Num(1), <<>>), DeleteOp(key)>>>> : key \in KindKeys}

InitKinds ==
    /\ kv = NoRows
    /\ now = 1
    /\ ulids = 0
    /\ last = [op |-> "open"]
    /\ hist = [k \in KindKeys |-> NeverWritten]
    /\ returned = <<>>
    /\ consumed = {}
    /\ stream = NoStream

NextKinds ==
    \/ \E key \in KindKeys : Get(key)
    \/ \E key \in KindKeys : Set(key, Num(1), <<>>)
    \/ \E key \in KindKeys : Delete(key)
    \/ \E selector \in {NoSelector, Prefix(KSym)} : List(selector, NoOptions)
    \/ \E commit \in KindCommits : Commit(commit[1], commit[2])

SpecKinds == InitKinds /\ [][NextKinds]_vars

\* ------------------------------------------------------------------ codec
\* The codec on its own: two keys are drawn, then encodeKey is applied to
\* both, incrementBytes to the first encoding and decodeKey to it.
CodecParts ==
    {Bytes(<<0>>), Bytes(<<1>>), Str(<<97>>), Str(<<97, 0>>), Str(<<98>>),
     Num(-2), Num(-1), NegZero, Num(0), Num(1), NaN,
     Big(-1), Big(1), Bool(FALSE), Bool(TRUE)}

CodecKeys == SeqsUpTo2(CodecParts)

InitCodec ==
    /\ kv = NoRows
    /\ now = 1
    /\ ulids = 0
    /\ last \in {[op |-> "keys", a |-> a, b |-> b] : a \in CodecKeys, b \in CodecKeys}
    /\ hist = [k \in Keys |-> NeverWritten]
    /\ returned = <<>>
    /\ consumed = {}
    /\ stream = NoStream

Codec ==
    /\ last.op = "keys"
    /\ last' = [op |-> "encodeKey", a |-> last.a, b |-> last.b,
                ea |-> encodeKey(last.a), eb |-> encodeKey(last.b),
                end |-> incrementBytes(encodeKey(last.a)),
                decoded |-> IF decodeKeyThrows(encodeKey(last.a))
                            THEN [threw |-> TRUE, key |-> <<>>]
                            ELSE [threw |-> FALSE,
                                  key |-> decodeKey(encodeKey(last.a))]]
    /\ UNCHANGED <<kv, now, ulids, hist, returned, consumed, stream>>

NextCodec == Codec

SpecCodec == InitCodec /\ [][NextCodec]_vars

\* ------------------------------------------------------------------ watch
\* One stream on [0] or on ["a"] and [0]; set, get and delete on [0], set on
\* [-0], which is another key than [0], and a commit that sets ["a"] and
\* deletes [0]. The clock stands still and expireIn -1 writes an entry that
\* is expired as soon as it is written. No write is made once MaxChunks
\* versions were given, or while MaxChunks listener calls and chunks are
\* there.
MaxChunks == 2

K0 == <<Num(0)>>
KNegZero == <<NegZero>>

WatchKeys == {K0, KNegZero, KA}
WatchLists == {<<K0>>, <<KA, K0>>}

Room ==
    /\ ulids < MaxChunks
    /\ Len(stream.calls) + Len(stream.queue) < MaxChunks

InitWatch ==
    /\ kv = NoRows
    /\ now = 1
    /\ ulids = 0
    /\ last = [op |-> "open"]
    /\ hist = [k \in WatchKeys |-> NeverWritten]
    /\ returned = <<>>
    /\ consumed = {}
    /\ stream = NoStream

NextWatch ==
    \/ \E keys \in WatchLists : Watch(keys)
    \/ WatchStart
    \/ \E c \in 1..MaxChunks : WatchListener(c)
    \/ WatchCancel
    \/ Get(K0)
    \/ \E options \in TxExpiry : Room /\ Set(K0, Num(1), options)
    \/ Room /\ Set(KNegZero, Num(1), <<>>)
    \/ Room /\ Delete(K0)
    \/ Room /\ Commit(<<>>, <<SetOp(KA, Num(1), <<>>), DeleteOp(K0)>>)

SpecWatch == InitWatch /\ [][NextWatch]_vars

\* A callback that waits on a resolved promise is run: start() and every
\* call of listener go on after each await.
SpecWatchFair ==
    /\ SpecWatch
    /\ WF_vars(WatchStart)
    /\ \A c \in 1..MaxChunks : WF_vars(WatchListener(c))

\* ------------------------------------------------------------------ bytes
\* incrementBytes on its own: a byte string of up to MaxLen bytes among
\* 0x00, 0x01, 0xfe and 0xff is drawn, then incrementBytes is applied to it.
ByteStrings ==
    UNION {[1..n -> {0, 1, 254, 255}] : n \in 0..MaxLen}

InitBytes ==
    /\ kv = NoRows
    /\ now = 1
    /\ ulids = 0
    /\ last \in {[op |-> "bytes", bytes |-> bytes] : bytes \in ByteStrings}
    /\ hist = [k \in Keys |-> NeverWritten]
    /\ returned = <<>>
    /\ consumed = {}
    /\ stream = NoStream

IncrementBytes ==
    /\ last.op = "bytes"
    /\ last' = [op |-> "incrementBytes", bytes |-> last.bytes,
                res |-> incrementBytes(last.bytes)]
    /\ UNCHANGED <<kv, now, ulids, hist, returned, consumed, stream>>

NextBytes == IncrementBytes

SpecBytes == InitBytes /\ [][NextBytes]_vars

\* ----------------------------------------------------------------- events
\* One stream on ["a"] and [0] and the store closed at any point: get and
\* set with expireIn -1 on the two keys, and commits that delete [1n] and
\* set ["a"], that set ["a"] and delete [0], and that hold no operation.
\* The clock stands still and no call is made on a closed store.
Open == stream.closed = <<>>

EventCommits ==
    {<<DeleteOp(KBig), SetOp(KA, Num(1), <<>>)>>,
     <<SetOp(KA, Num(1), <<>>), DeleteOp(K0)>>,
     <<>>}

NextEvents ==
    \/ Open /\ Watch(<<KA, K0>>)
    \/ WatchStart
    \/ \E c \in 1..MaxChunks : WatchListener(c)
    \/ Close
    \/ \E key \in {KA, K0} : Open /\ Get(key)
    \/ \E key \in {KA, K0} : Open /\ Room /\ Set(key, Num(1), <<-1>>)
    \/ \E ops \in EventCommits : Open /\ Room /\ Commit(<<>>, ops)

SpecEvents == InitWatch /\ [][NextEvents]_vars

\* ---------------------------------------------------------------- rewrite
\* One key written again and again. The first write is
\* set(["a"], 1, {expireIn: 1}) at time 1; every later write is without
\* expireIn or with expireIn 0, by set or by a commit of one operation or of
\* two operations on the key.
RewriteValues == {Num(1), Num(2)}
NoExpiry == {<<>>, <<0>>}

RewriteOps ==
    {<<SetOp(KA, value, options)>> : value \in RewriteValues, options \in NoExpiry}
    \cup {<<SetOp(KA, Num(1), <<>>), DeleteOp(KA)>>,
          <<DeleteOp(KA), SetOp(KA, Num(2), <<>>)>>,
          <<SetOp(KA, Num(1), <<>>), SetOp(KA, Num(2), <<0>>)>>}

NextRewrite ==
    \/ Tick
    \/ ulids = 0 /\ now = 1 /\ Set(KA, Num(1), <<1>>)
    \/ \E value \in RewriteValues, options \in NoExpiry :
          ulids > 0 /\ Set(KA, value, options)
    \/ \E ops \in RewriteOps : ulids > 0 /\ Commit(<<>>, ops)
    \/ Get(KA)
    \/ List(NoSelector, NoOptions)

SpecRewrite == Init /\ [][NextRewrite]_vars

\* --------------------------------------------------------------- snapshot
\* One stream on [0] and ["a"], read in that order, with sets of [0] and the
\* commit that sets ["a"] and deletes [0]. ["a"] is written by that commit
\* only, so an entry of ["a"] with version v tells that the commit with
\* version v deleted [0].
NextSnapshot ==
    \/ Watch(<<K0, KA>>)
    \/ WatchStart
    \/ \E c \in 1..MaxChunks : WatchListener(c)
    \/ Room /\ Set(K0, Num(1), <<>>)
    \/ Room /\ Commit(<<>>, <<SetOp(KA, Num(1), <<>>), DeleteOp(K0)>>)

SpecSnapshot == InitWatch /\ [][NextSnapshot]_vars

\* ------------------------------------------------------------- properties
\* A key has a live entry when get finds its row and does not find it
\* expired.
Live(table, t, key) ==
    /\ ~encodeKeyThrows(key)
    /\ pkOf(key) \in DOMAIN table
    /\ ~getExpired(table[pkOf(key)], t)

\* A value that JSON.parse(JSON.stringify(value)) gives back.
RoundTrips(value) ==
    /\ ~JsonStringifyThrows(value)
    /\ JsonParse(JsonStringify(value)) = value

\* The entry the history says get must return for key.
Expected(key) ==
    [key |-> key, value |-> hist[key].value, version |-> hist[key].version]

\* The keys list(selector) yields in the state, in order.
Yielded(selector) ==
    LET result == listResult(kv, now, selector, NoOptions)
    IN [i \in 1..Len(result) |-> result[i].key]


BeginsWith(key, prefix) ==
    /\ Len(key) >= Len(prefix)
    /\ SubSeq(key, 1, Len(prefix)) = prefix

\* C1: a commit in which a check fails returns {ok: false}, leaves every row
\* of the table as it was, whatever operations it holds, and publishes no
\* change event.
C1_FailedCheckNoEffect ==
    [][(last'.op = "commit" /\ last'.checkFailed) =>
          /\ kv' = kv
          /\ last'.result = [ok |-> FALSE, version |-> <<>>]
          /\ last'.event = <<>>]_vars

C1_Witness ==
    /\ last.op = "commit"
    /\ last.checkFailed
    /\ last.sets # {}
    /\ kv # NoRows
    /\ ~last.result.ok

\* C2: the commit of the single check(key, null) returns ok exactly when the
\* key has no live entry at commit time (absent, or present and expired).
C2_NullCheckIffLive ==
    [][\A key \in {KA, KB} :
          Commit(<<Check(key, <<>>)>>, <<>>) =>
             (last'.result.ok <=> ~Live(kv, now, key))]_vars

\* C3: the commit of the single check(key, v), v not null, returns ok exactly
\* when the key has a live entry at commit time and its version is v.
C3_VersionCheckIffLive ==
    [][\A version \in TxVersions \ {<<>>} :
          Commit(<<Check(KA, version)>>, <<>>) =>
             (last'.result.ok <=>
                 /\ Live(kv, now, KA)
                 /\ kv[pkOf(KA)].version = version[1])]_vars

\* C4: a commit that holds check(k, v) and a write to k, made after a commit
\* with the same check(k, v) and a write to k returned ok, does not return
\* ok: of two transactions built on the same version, at most one commits.
C4_NoLostUpdate ==
    (last.op = "commit" /\ last.stale) => ~last.result.ok

C4_Witness ==
    /\ last.op = "commit"
    /\ last.stale
    /\ ~last.result.ok
    /\ Len(returned) >= 1

\* C5 (as amended): while the row set(key, value) wrote is neither written
\* again, deleted nor expired, get(key) returns the version set returned and,
\* for a value JSON serialization gives back unchanged, the value.
C5_GetAfterSet ==
    \A key \in StoreKeys :
       (/\ hist[key].by = "set"
        /\ hist[key].deadline # <<>> => now <= hist[key].deadline[1]
        /\ RoundTrips(hist[key].value))
       => getResult(kv, now, key) = Expected(key)

C5_Witness ==
    /\ last.op = "get"
    /\ ~last.threw
    /\ hist[last.key].by = "set"
    /\ last.result = Expected(last.key)
    /\ last.result.value = Num(1)

\* C5 as stated: get returns the value that was set, for every value.
C5_GetAfterSetAnyValue ==
    \A key \in StoreKeys :
       (/\ hist[key].by = "set"
        /\ hist[key].deadline # <<>> => now <= hist[key].deadline[1])
       => getResult(kv, now, key) = Expected(key)

\* C6 (as amended): for the row set(key, value, {expireIn: d}), d > 0, wrote
\* at time t and nothing touched since: before t + d, get returns the entry
\* and list yields its key, for a value JSON serialization gives back
\* unchanged; after t + d, get returns the missing shape and list does not
\* yield the key.
C6_ExpireIn ==
    \A key \in StoreKeys :
       (hist[key].by = "set" /\ hist[key].deadline # <<>>) =>
          /\ (now < hist[key].deadline[1] /\ RoundTrips(hist[key].value)) =>
                /\ getResult(kv, now, key) = Expected(key)
                /\ InSeq(Expected(key), listResult(kv, now, NoSelector, NoOptions))
                /\ InSeq(Expected(key), listResult(kv, now, Prefix(key), NoOptions))
          /\ now > hist[key].deadline[1] =>
                /\ getResult(kv, now, key) = Missing(key)
                /\ ~InSeq(key, Yielded(NoSelector))
                /\ ~InSeq(key, Yielded(Prefix(key)))

C6_Witness ==
    /\ last.op = "list"
    /\ ~last.threw
    /\ \E key \in StoreKeys :
          /\ hist[key].by = "set"
          /\ hist[key].deadline # <<>>
          /\ now > hist[key].deadline[1]
          /\ pkOf(key) \in DOMAIN kv
          /\ \A i \in 1..Len(last.result) : last.result[i].key # key

\* C6 as stated: before t + d get returns the value that was set and list
\* yields the entry, for every value.
C6_ExpireInAnyValue ==
    \A key \in StoreKeys :
       (hist[key].by = "set" /\ hist[key].deadline # <<>>) =>
          /\ now < hist[key].deadline[1] =>
                /\ getResult(kv, now, key) = Expected(key)
                /\ InSeq(Expected(key), listResult(kv, now, NoSelector, NoOptions))
          /\ now > hist[key].deadline[1] =>
                /\ getResult(kv, now, key) = Missing(key)
                /\ ~InSeq(key, Yielded(NoSelector))

\* C7: after a commit returned {ok: true, version}, every key the commit
\* set has a row, and each of these rows holds that version.
C7_OneVersionPerCommit ==
    (last.op = "commit" /\ last.result.ok) =>
       \A key \in last.sets :
          /\ pkOf(key) \in DOMAIN kv
          /\ <<kv[pkOf(key)].version>> = last.result.version

C7_Witness ==
    /\ last.op = "commit"
    /\ last.result.ok
    /\ Cardinality(last.sets) = 2

\* C8: the versions set and commit returned are pairwise different, and two
\* rows hold the same version only when one commit wrote both.
C8_FreshVersions ==
    /\ \A i, j \in 1..Len(returned) : i # j => returned[i] # returned[j]
    /\ \A k1, k2 \in {KA, KB} :
          (/\ k1 # k2
           /\ pkOf(k1) \in DOMAIN kv
           /\ pkOf(k2) \in DOMAIN kv
           /\ kv[pkOf(k1)].version = kv[pkOf(k2)].version)
          => /\ hist[k1].by = "commit"
             /\ hist[k2].by = "commit"
             /\ hist[k1].writer = hist[k2].writer

C8_Witness ==
    /\ Len(returned) = 2
    /\ pkOf(KA) \in DOMAIN kv
    /\ pkOf(KB) \in DOMAIN kv
    /\ kv[pkOf(KA)].version = kv[pkOf(KB)].version
    /\ hist[KA].by = "commit"

C10_PrefixExact ==
    (last.op = "list" /\ ~last.threw /\ last.selector.prefix # <<>>) =>
       LET P == last.selector.prefix[1]
           keys == [i \in 1..Len(last.result) |-> last.result[i].key]
       IN /\ \A i \in 1..Len(keys) : BeginsWith(keys[i], P)
          /\ \A key \in StoreKeys :
                (Live(kv, now, key) /\ BeginsWith(key, P)) => InSeq(key, keys)
          /\ \A i, j \in 1..Len(keys) :
                i < j => BytesLess(pkOf(keys[i]), pkOf(keys[j]))

\* The order of keys: part by part, kinds by Bytes < String < Number <
\* BigInteger < Boolean, parts of one kind by value, a strict prefix first.
\* Numbers are compared as numbers, where NaN precedes nothing and nothing
\* precedes it and -0 equals 0; with signedZero, -0 is a number of its own
\* right before 0.
KindRank(t) ==
    CASE t = "bytes" -> 1
      [] t = "string" -> 2
      [] t = "number" -> 3
      [] t = "bigint" -> 4
      [] t = "boolean" -> 5

PartSame(p, q, signedZero) ==
    /\ p.t = q.t
    /\ IF p.t = "number"
       THEN /\ p.v # <<>>
            /\ q.v # <<>>
            /\ p.v[1] = q.v[1]
            /\ signedZero => Len(p.v) = Len(q.v)
       ELSE p.v = q.v

PartPrecedes(p, q, signedZero) ==
    IF p.t # q.t THEN KindRank(p.t) < KindRank(q.t)
    ELSE IF p.t \in {"bytes", "string"} THEN BytesLess(p.v, q.v)
    ELSE IF p.t = "number"
    THEN /\ p.v # <<>>
         /\ q.v # <<>>
         /\ \/ p.v[1] < q.v[1]
            \/ signedZero /\ p.v[1] = q.v[1] /\ Len(p.v) > Len(q.v)
    ELSE p.v[1] < q.v[1]

RECURSIVE KeyPrecedes(_, _, _)
KeyPrecedes(a, b, signedZero) ==
    IF b = <<>> THEN FALSE
    ELSE IF a = <<>> THEN TRUE
    ELSE IF PartSame(Head(a), Head(b), signedZero)
    THEN KeyPrecedes(Tail(a), Tail(b), signedZero)
    ELSE PartPrecedes(Head(a), Head(b), signedZero)

RECURSIVE KeySame(_, _, _)
KeySame(a, b, signedZero) ==
    IF a = <<>> \/ b = <<>> THEN a = b
    ELSE /\ PartSame(Head(a), Head(b), signedZero)
         /\ KeySame(Tail(a), Tail(b), signedZero)

HasNaN(key) == \E i \in 1..Len(key) : key[i] = NaN

\* C11 (as amended): on keys without NaN, and with -0 taken as a number of
\* its own right before 0, encodeKey is injective and encodeKey(A) is less
\* than encodeKey(B) in unsigned byte order exactly when A precedes B.
C11_OrderPreserving ==
    (last.op = "encodeKey" /\ ~HasNaN(last.a) /\ ~HasNaN(last.b)) =>
       /\ last.ea = last.eb <=> KeySame(last.a, last.b, TRUE)
       /\ BytesLess(last.ea, last.eb) <=> KeyPrecedes(last.a, last.b, TRUE)

C11_Witness ==
    /\ last.op = "encodeKey"
    /\ last.a = <<Str(<<97>>), Num(-2)>>
    /\ last.b = <<Str(<<97>>), Num(-1)>>
    /\ BytesLess(last.ea, last.eb)

\* C11 as stated: for all keys, numbers compared by value.
C11_OrderPreservingByValue ==
    last.op = "encodeKey" =>
       /\ last.ea = last.eb <=> KeySame(last.a, last.b, FALSE)
       /\ BytesLess(last.ea, last.eb) <=> KeyPrecedes(last.a, last.b, FALSE)

\* C12: for every prefix P and every key K that is P or has P as its
\* leading parts, encodeKey(P) <= encodeKey(K) < incrementBytes(encodeKey(P))
\* in unsigned byte order.
C12_PrefixContainment ==
    (last.op = "encodeKey" /\ BeginsWith(last.b, last.a)) =>
       /\ BytesLeq(last.ea, last.eb)
       /\ BytesLess(last.eb, last.end)

\* C13: the key list returns for an entry stored under a key of supported
\* kinds, rebuilt from key_json, equals that key.
C13_KeyRoundTrip ==
    (last.op = "list" /\ ~last.threw /\ last.selector = NoSelector) =>
       \A key \in KindKeys :
          Live(kv, now, key) =>
             \E i \in 1..Len(last.result) : last.result[i].key = key

\* C14: decodeKey(encodeKey(K)) equals K for every key K of supported
\* kinds.
C14_DecodeInverse ==
    last.op = "encodeKey" =>
       /\ ~last.decoded.threw
       /\ last.decoded.key = last.a

\* C15: for a key whose parts are of the five supported kinds, set returns
\* {ok: true} without throwing and a following get returns the value; the
\* same for a commit that sets such a key.
C15_AllKindsUsable ==
    /\ (last.op = "set" /\ ~encodeKeyThrows(last.key)) =>
          /\ ~last.threw
          /\ last.result.ok
          /\ getResult(kv, now, last.key).value = Num(1)
    /\ (/\ last.op = "commit"
        /\ ~last.checkFailed
        /\ last.unsupported = <<>>) =>
          /\ last.result.ok
          /\ \A key \in last.sets : getResult(kv, now, key).value = Num(1)

\* C16: the first chunk of a watch stream is the snapshot of start(): one
\* entry per watched key, in the order of keys, each the result of the get
\* start() made on that key; no other chunk comes from start(); and a
\* stream that is not cancelled does get that chunk.
C16_InitialSnapshot ==
    /\ [](stream.queue # <<>> =>
            /\ stream.causes[1].by = "start"
            /\ \A j \in 2..Len(stream.queue) : stream.causes[j].by = "listener"
            /\ Len(stream.queue[1]) = Len(stream.keys)
            /\ Len(stream.reads) = Len(stream.keys)
            /\ \A i \in 1..Len(stream.keys) :
                  stream.queue[1][i] =
                     getResult(stream.reads[i].table, stream.reads[i].t,
                               stream.keys[i]))
    /\ (stream.pc = "start" /\ ~stream.cancelled)
          ~> (stream.queue # <<>> \/ stream.cancelled)

C16_Witness ==
    /\ stream.keys = <<KA, K0>>
    /\ Len(stream.queue) = 1
    /\ stream.queue[1][1].value = Num(1)
    /\ stream.queue[1][2] = Missing(K0)
    /\ pkOf(K0) \in DOMAIN stream.reads[2].table

\* C17: on a stream that is not cancelled, a write to a watched key made
\* after watch(keys) was called is followed by a chunk that read the key
\* after the write.
C17_NoMissedWrite ==
    (stream.owed # {} /\ ~stream.cancelled)
       ~> (stream.owed = {} \/ stream.cancelled)

\* C18: a chunk enqueued by the listener answers a change event that
\* carries one of the watched keys.
C18_OnlyWatchedKeys ==
    \A j \in 1..Len(stream.queue) :
       stream.causes[j].by = "listener" =>
          \E k \in 1..Len(stream.causes[j].changedKeys),
             i \in 1..Len(stream.keys) :
             stream.causes[j].changedKeys[k] = stream.keys[i]

\* C19: a commit with a failing check does not reject: it resolves to
\* {ok: false} and the check error stays inside commit.
C19_CommitNeverThrows ==
    (last.op = "commit" /\ last.checkFailed) =>
       /\ ~last.rejected
       /\ last.result = [ok |-> FALSE, version |-> <<>>]

C19_Witness ==
    /\ last.op = "commit"
    /\ last.checkFailed
    /\ ~last.rejected
    /\ last.sets = {}
    /\ Len(returned) >= 1

\* C20: get, set, delete, list and commit, given a key with a part of no
\* supported kind, fail with the unsupported-key-type error, raised before
\* any statement reaches the database.
C20_UnsupportedKeyError ==
    /\ (last.op \in {"get", "set", "delete"} /\ encodeKeyThrows(last.key)) =>
          /\ last.threw
          /\ last.error = "Unsupported key type"
          /\ last.statements = 0
    /\ (last.op = "list" /\ listThrows(last.selector)) =>
          /\ last.threw
          /\ last.error = "Unsupported key type"
          /\ last.statements = 0
    /\ (last.op = "commit" /\ last.unsupported # <<>>) =>
          /\ last.rejected
          /\ last.unsupported = <<0>>

\* C21: once close() was called no listener is registered on the emitter
\* and no stream gets a further chunk.
C21_CloseEndsStreams ==
    stream.closed # <<>> =>
       /\ ~stream.listener
       /\ Len(stream.queue) = stream.closed[1]

\* C22: once a stream is cancelled its listener is not registered on the
\* emitter, whether cancel came while start() was still reading or after.
C22_CancelDeregisters == stream.cancelled => ~stream.listener

C22_Witness ==
    /\ stream.cancelled
    /\ stream.pc = "failed"
    /\ Len(stream.initial) = Len(stream.keys)
    /\ stream.queue = <<>>

\* The live rows of the range of a selector: not expired, at or above the
\* larger of encodeKey(prefix) and encodeKey(start), and below the smaller
\* of incrementBytes(encodeKey(prefix)) and encodeKey(end).
LiveInRange(selector) ==
    LET lowers == {pkOf(selector.prefix[i]) : i \in 1..Len(selector.prefix)}
                  \cup {pkOf(selector.start[i]) : i \in 1..Len(selector.start)}
        uppers == {incrementBytes(pkOf(selector.prefix[i])) :
                      i \in 1..Len(selector.prefix)}
                  \cup {pkOf(selector.end[i]) : i \in 1..Len(selector.end)}
    IN {pk \in DOMAIN kv :
          /\ ~getExpired(kv[pk], now)
          /\ \A lower \in lowers :
                (\A other \in lowers : BytesLeq(other, lower)) => BytesLeq(lower, pk)
          /\ \A upper \in uppers :
                (\A other \in uppers : BytesLeq(upper, other)) => BytesLess(pk, upper)}

\* pk comes before qk in the scan order of a list.
ScanBefore(reverse, pk, qk) ==
    IF reverse THEN BytesLess(qk, pk) ELSE BytesLess(pk, qk)

\* C23: list with a limit n >= 0 yields at most n entries.
C23_LimitIsMaximum ==
    (last.op = "list" /\ ~last.threw /\ last.options.limit # <<>>) =>
       Len(last.result) <= last.options.limit[1]

\* C24: list with a limit n >= 1 yields the first min(n, L) live entries of
\* the range in scan order, L being the number of live entries of the range:
\* expired rows of the range use up none of the limit.
C24_LimitCountsLive ==
    (/\ last.op = "list"
     /\ ~last.threw
     /\ last.options.limit # <<>>
     /\ last.options.limit[1] >= 1) =>
       LET n == last.options.limit[1]
           live == LiveInRange(last.selector)
           pks == [i \in 1..Len(last.result) |-> pkOf(last.result[i].key)]
       IN /\ Len(pks) = IF n < Cardinality(live) THEN n ELSE Cardinality(live)
          /\ \A i \in 1..Len(pks) : pks[i] \in live
          /\ \A i, j \in 1..Len(pks) :
                i < j => ScanBefore(last.options.reverse, pks[i], pks[j])
          /\ \A pk \in live :
                InSeq(pk, pks) \/ \A i \in 1..Len(pks) :
                                     ScanBefore(last.options.reverse, pks[i], pk)

C24_Witness ==
    /\ last.op = "list"
    /\ ~last.threw
    /\ last.options = [limit |-> <<1>>, reverse |-> FALSE]
    /\ last.selector = NoSelector
    /\ Len(last.result) = 1
    /\ last.result[1].key = KA1
    /\ pkOf(KA) \in DOMAIN kv
    /\ pkOf(KB) \in DOMAIN kv
    /\ ~getExpired(kv[pkOf(KB)], now)

\* C25: list with start or end, alone or with prefix, and no limit yields
\* exactly the live entries of the intersection of the bounds, each once
\* and as the row holds it, and nothing when the intersection is empty.
C25_BoundsIntersect ==
    (/\ last.op = "list"
     /\ ~last.threw
     /\ last.options.limit = <<>>
     /\ (last.selector.start # <<>> \/ last.selector.end # <<>>)) =>
       LET live == LiveInRange(last.selector)
       IN /\ Len(last.result) = Cardinality(live)
          /\ {pkOf(last.result[i].key) : i \in 1..Len(last.result)} = live
          /\ \A i \in 1..Len(last.result) :
                last.result[i] = getResult(kv, now, last.result[i].key)

C25_Witness ==
    /\ last.op = "list"
    /\ ~last.threw
    /\ last.options.limit = <<>>
    /\ last.selector = Range(<<KA>>, <<KA1>>, <<>>)
    /\ Len(last.result) = 1
    /\ Live(kv, now, KA)
    /\ Live(kv, now, KB)

\* C26: list with reverse and no limit yields the entries of the ascending
\* list in the opposite order; with a limit n >= 1 it yields the n live
\* entries of the range with the greatest encoded keys, greatest first.
C26_ReverseFlips ==
    (last.op = "list" /\ ~last.threw /\ last.options.reverse) =>
       LET ascending == listResult(kv, now, last.selector,
                                   [limit |-> <<>>, reverse |-> FALSE])
           total == Len(ascending)
           n == IF last.options.limit = <<>> THEN total
                ELSE IF last.options.limit[1] < total
                THEN last.options.limit[1] ELSE total
       IN (last.options.limit = <<>> \/ last.options.limit[1] >= 1) =>
             /\ Len(last.result) = n
             /\ \A i \in 1..n : last.result[i] = ascending[total + 1 - i]

C26_Witness ==
    /\ last.op = "list"
    /\ ~last.threw
    /\ last.options = [limit |-> <<2>>, reverse |-> TRUE]
    /\ Len(last.result) = 2
    /\ Len(listResult(kv, now, last.selector, NoOptions)) = 3

\* The number a byte string spells, most significant byte first.
RECURSIVE BigEndian(_)
BigEndian(bytes) ==
    IF bytes = <<>> THEN 0
    ELSE 256 * BigEndian(SubSeq(bytes, 1, Len(bytes) - 1)) + bytes[Len(bytes)]

\* C29: incrementBytes adds 1 to the bytes read as a big-endian counter,
\* and on bytes that are all 0xff it returns them followed by one 0x00, a
\* result that compares greater than the input.
C29_IncrementBytes ==
    last.op = "incrementBytes" =>
       IF \A i \in 1..Len(last.bytes) : last.bytes[i] = 255
       THEN /\ last.res = Append(last.bytes, 0)
            /\ BytesLess(last.bytes, last.res)
       ELSE /\ Len(last.res) = Len(last.bytes)
            /\ BigEndian(last.res) = BigEndian(last.bytes) + 1
            /\ BytesLess(last.bytes, last.res)

\* C27: a commit that returns ok publishes one change event with the keys
\* it leaves set among its keys, a registered listener that watches one of
\* the keys of the event starts exactly one call for it, and a commit with
\* no changed key starts none.
C27_OneEventPerCommit ==
    [][(last'.op = "commit" /\ last'.result.ok) =>
          LET started == {c \in (Len(stream.calls) + 1)..Len(stream'.calls) :
                             stream'.calls[c].changedKeys = last'.event}
          IN /\ \A key \in last'.sets : InSeq(key, last'.event)
             /\ IF /\ stream.listener
                   /\ \E i \in 1..Len(stream.keys) :
                         InSeq(stream.keys[i], last'.event)
                THEN Cardinality(started) = 1
                ELSE started = {}]_vars

\* C28: the listener call that a set, a delete or a commit starts reads the
\* first watched key in the table as the write left it.
C28_EventAfterWrite ==
    [][(/\ last'.op \in {"set", "delete", "commit"}
        /\ Len(stream'.calls) > Len(stream.calls)) =>
          \A c \in (Len(stream.calls) + 1)..Len(stream'.calls) :
             stream'.calls[c].updates =
                <<getResult(kv', now', stream'.keys[1])>>]_vars

C28_Witness ==
    /\ last.op = "set"
    /\ ~last.threw
    /\ stream.keys = <<K0>>
    /\ Len(stream.calls) = 1
    /\ stream.calls[1].changedKeys = <<K0>>
    /\ stream.calls[1].updates[1].version = last.result.version

\* C30: get of a key whose row is expired returns the missing shape and
\* removes the row; get of a key whose row is live or absent changes no
\* row; and no get changes the row of another key.
C30_LazyDeleteOnlyThatRow ==
    [][(last'.op = "get" /\ ~last'.threw) =>
          LET pk == pkOf(last'.key)
              expired == pk \in DOMAIN kv /\ getExpired(kv[pk], now)
          IN /\ expired => (last'.result = Missing(last'.key) /\ pk \notin DOMAIN kv')
             /\ ~expired => kv' = kv
             /\ DOMAIN kv' \subseteq DOMAIN kv
             /\ \A other \in DOMAIN kv \ {pk} :
                   other \in DOMAIN kv' /\ kv'[other] = kv[other]]_vars

\* C31: after a list that was read to its end, no row of the range it
\* scanned (the bounds of its selector, whatever date_expired holds) has
\* date_expired < now.
C31_ListRemovesExpired ==
    (last.op = "list" /\ ~last.threw) =>
       \A pk \in DOMAIN kv :
          listWhere([kv EXCEPT ![pk].date_expired = <<>>], now, last.selector, pk)
             => ~getExpired(kv[pk], now)

\* C35: at every time and for every key, get returns a non-null value if and
\* only if list yields the key, and if and only if the check phase of a
\* commit finds a version for the key.
C35_LiveAgreement ==
    \A key \in {KA, KB} :
       LET byGet == getResult(kv, now, key).value # JsNull
           byList == InSeq(key, Yielded(NoSelector))
           byCheck == effectiveVersion(kv, now, pkOf(key)) # <<>>
       IN (byGet <=> byList) /\ (byGet <=> byCheck)

\* C32: once ["a"], first set with expireIn 1 at time 1, was written again
\* without expireIn, by set or by a commit, its row holds no expiration time
\* and get returns the value and the version of that write at every later
\* time.
C32_SetReplacesExpiry ==
    (hist[KA].by # "none" /\ hist[KA].deadline = <<>>) =>
       /\ pkOf(KA) \in DOMAIN kv
       /\ kv[pkOf(KA)].date_expired = <<>>
       /\ getResult(kv, now, KA) = Expected(KA)

\* The second write, by a commit and without expireIn, came after the set
\* with expireIn 1 at time 1, and get returned its entry at a time after 2.
C32_Witness ==
    /\ hist[KA].writer = 2
    /\ hist[KA].by = "commit"
    /\ hist[KA].deadline = <<>>
    /\ now > 2
    /\ last.op = "get"
    /\ last.result = Expected(KA)

\* C33: after a commit that returned ok, every key its operations touch is
\* as the last of them left it: absent after a delete, present with the
\* value of the set and the version of the commit after a set.
C33_LastOperationDecides ==
    [][\A ops \in RewriteOps :
          (Commit(<<>>, ops) /\ last'.result.ok) =>
             \A key \in {ops[i].key : i \in 1..Len(ops)} :
                IF lastOpOn(ops, key).type = "delete"
                THEN /\ pkOf(key) \notin DOMAIN kv'
                     /\ getResult(kv', now', key) = Missing(key)
                ELSE getResult(kv', now', key) =
                        [key |-> key, value |-> lastOpOn(ops, key).value,
                         version |-> last'.result.version]]_vars

\* A commit of set(["a"], 1) and then delete(["a"]) returned ok, over a row
\* of the key, and left no row.
C33_Witness ==
    /\ last.op = "commit"
    /\ last.result.ok
    /\ last.event = <<KA, KA>>
    /\ last.sets = {}
    /\ pkOf(KA) \notin DOMAIN kv

\* C34: an entry last written with expireIn 0 (every write after the first
\* that asked for an expiration) holds the expiration time a set without
\* options stores, null, and get and list report it at every later time.
C34_ZeroExpireIn ==
    (hist[KA].writer > 1 /\ hist[KA].deadline # <<>>) =>
       /\ pkOf(KA) \in DOMAIN kv
       /\ kv[pkOf(KA)].date_expired = dateExpired(now, <<>>)
       /\ getResult(kv, now, KA) = Expected(KA)
       /\ Yielded(NoSelector) = <<KA>>

\* A set or commit with expireIn 0 wrote the entry at an earlier time and a
\* list yielded it.
C34_Witness ==
    /\ hist[KA].writer > 1
    /\ hist[KA].deadline # <<>>
    /\ now > hist[KA].deadline[1]
    /\ last.op = "list"
    /\ Len(last.result) = 1

\* C37: a call of get or list publishes no change event and starts no call
\* of a listener: the stream is after the call as it was before.
C37_ReadsPublishNothing ==
    [][(last'.op \in {"get", "list"} /\ ~last'.threw) =>
          /\ last'.op = "get" => last'.event = <<>>
          /\ stream' = stream]_vars

\* C39: on every store, list({prefix: []}) yields the entries that a list
\* without bounds yields, every live entry in ascending order of pk.
C39_EmptyPrefixIsAll ==
    /\ ~listThrows(Prefix(<<>>))
    /\ listResult(kv, now, Prefix(<<>>), NoOptions)
          = listResult(kv, now, NoSelector, NoOptions)

\* C36: every snapshot of the stream on [0] and ["a"] is what the store held
\* at one instant; in particular none shows part of a commit: the entry of
\* ["a"] set by a commit together with an entry of [0] that this commit
\* deleted (one with an older version).
C36_ConsistentSnapshots ==
    \A n \in 1..Len(stream.queue) :
       LET chunk == stream.queue[n]
       IN (Len(chunk) = 2 /\ chunk[1].version # <<>> /\ chunk[2].version # <<>>)
             => chunk[1].version[1] > chunk[2].version[1]

\* C38: a get removes no row but expired ones, and an entry that a set or a
\* commit writes in the call after a get found the key's row expired is in
\* the store, with the version of that write.
C38_CleanupKeepsLive ==
    [][/\ (last'.op = "get" /\ ~last'.threw) =>
             \A pk \in DOMAIN kv :
                (kv[pk].date_expired = <<>> \/ kv[pk].date_expired[1] >= now)
                   => (pk \in DOMAIN kv' /\ kv'[pk] = kv[pk])
       /\ (/\ last.op = "get" /\ ~last.threw /\ last.event # <<>>
           /\ \/ last'.op = "set" /\ ~last'.threw /\ last'.key = last.key
              \/ last'.op = "commit" /\ last'.result.ok /\ last.key \in last'.sets)
          => /\ pkOf(last.key) \in DOMAIN kv'
             /\ <<kv'[pkOf(last.key)].version>> = last'.result.version]_vars

\* The second write of ["a"], a set, found no row: a get had found the row
\* of the first write expired and removed it. The entry it wrote is there.
C38_Witness ==
    /\ last.op = "set"
    /\ last.inserted
    /\ hist[KA].writer = 2
    /\ pkOf(KA) \in DOMAIN kv
    /\ <<kv[pkOf(KA)].version>> = last.result.version

====
